---- MODULE Spec2Model ----
(***************************************************************************)
(* A model of the Listener packet pipeline: the flow key, the per-flow     *)
(* state, the header parser with its flow table and sweeper, and the       *)
(* burst-receive capture loop of the application.                          *)
(*                                                                         *)
(* Conventions.  Python None is the number None (-1) where the value is a  *)
(* time, and the empty sequence where the value is a dict or a tuple       *)
(* ({} and None are both falsy in the code's tests).  A Python str is the  *)
(* sequence of its character codes, so that str comparison is code-point   *)
(* lexicographic as in Python.  Times are whole ticks, TicksPerSecond to   *)
(* the second.                                                             *)
(***************************************************************************)
EXTENDS Integers, Sequences, FiniteSets, TLC

VARIABLES
    \* FlowKey under test: two endpoints, a protocol, the two keys built
    k_src, k_dst, k_proto, key_ab, key_ba,
    \* one FlowState object driven by update() calls, the call count, and
    \* the number of those calls that passed tcp_flags > 0
    fs, fs_calls, fs_flagged,
    \* PacketParser class state, the wall clock, the last call and its result
    flow_states, last_cleanup, clock, features, last_frame, last_ts, last_op,
    sweep_ran, ops,
    \* the application thread's position, the two running flags, the pool
    pc, running, app_running, mempool,
    \* the burst being drained, the position in it, the frees per handle
    mbufs, idx, freed,
    \* packets counted, messages handed to the producer, per-buffer outcomes
    packet_count, sent, log,
    \* bursts received, where the thread stood when a signal was delivered
    \* ("none" before), error seen by the outer handler,
    \* run()'s result, producer flushes, process exit code
    rx_bursts, signalled_at, loop_error, run_result, flushes, exit_code,
    \* where the loop stood when stop_capture() was called during it
    stop_at,
    \* two runs of the parser fed the same packets, each with its own flow
    \* table and wall clock (empty until such a pair is set up)
    replay,
    \* the driver calls made by initialize(), in order, and the position in
    \* InitCalls of the call that failed (0 while none has)
    init_calls, init_failed_at

keyVars == <<k_src, k_dst, k_proto, key_ab, key_ba>>
flowVars == <<fs, fs_calls, fs_flagged>>
parserVars == <<replay, flow_states, last_cleanup, clock, features, last_frame, last_ts,
                last_op, sweep_ran, ops>>
loopVars == <<init_calls, init_failed_at, pc, running, app_running, mempool, mbufs, idx, freed, packet_count,
              sent, log, rx_bursts, signalled_at, loop_error, run_result, flushes,
              exit_code, stop_at>>
vars == <<keyVars, flowVars, parserVars, loopVars>>

----------------------------------------------------------------------------
(* Bounds of the model *)

\* resolution of the clock: ticks per second
TicksPerSecond == 2
\* update() calls on the FlowState under test
MaxUpdates == 3
\* parser / clock operations in one run of the parser specification
MaxOps == 3
\* wall-clock second at which the module is imported
StartClock == 100
\* buffers the driver delivers in one run, and the most in one burst
MaxBuffers == 3
MaxBurst == 2

----------------------------------------------------------------------------
(* Values *)

None == -1

Truthy(x) == x # None /\ x # 0

\* sum(s) of a list of numbers
RECURSIVE SumSeq(_)
SumSeq(s) == IF s = <<>> THEN 0 ELSE Head(s) + SumSeq(Tail(s))

\* str(n) for 0 <= n <= 255, as character codes
DecStr(n) ==
    IF n < 10 THEN <<48 + n>>
    ELSE IF n < 100 THEN <<48 + (n \div 10), 48 + (n % 10)>>
    ELSE <<48 + (n \div 100), 48 + ((n \div 10) % 10), 48 + (n % 10)>>

\* socket.inet_ntoa: four bytes to the dotted-quad str
inet_ntoa(b) ==
    DecStr(b[1]) \o <<46>> \o DecStr(b[2]) \o <<46>> \o DecStr(b[3]) \o <<46>> \o DecStr(b[4])

\* Python's s < t on str
StrLess(s, t) ==
    \E i \in 1..Len(t) :
        /\ \A j \in 1..(i - 1) : j <= Len(s) /\ s[j] = t[j]
        /\ \/ i = Len(s) + 1
           \/ (i <= Len(s) /\ s[i] < t[i])

\* Python's (ip_a, port_a) < (ip_b, port_b) on (str, int) tuples
PairLess(ip_a, port_a, ip_b, port_b) ==
    IF ip_a # ip_b THEN StrLess(ip_a, ip_b) ELSE port_a < port_b

----------------------------------------------------------------------------
(* FlowKey *)

FlowKeyNoSwap(src_ip, dst_ip, src_port, dst_port, protocol) ==
    [ip1 |-> src_ip, port1 |-> src_port, ip2 |-> dst_ip, port2 |-> dst_port,
     is_forward |-> TRUE, protocol |-> protocol]

FlowKey(src_ip, dst_ip, src_port, dst_port, protocol) ==
    IF PairLess(src_ip, src_port, dst_ip, dst_port)
    THEN [ip1 |-> src_ip, port1 |-> src_port, ip2 |-> dst_ip, port2 |-> dst_port,
          is_forward |-> TRUE, protocol |-> protocol]
    ELSE [ip1 |-> dst_ip, port1 |-> dst_port, ip2 |-> src_ip, port2 |-> src_port,
          is_forward |-> FALSE, protocol |-> protocol]

\* the tuple __hash__ hashes and __eq__ compares
KeyTuple(k) == <<k.ip1, k.port1, k.ip2, k.port2, k.protocol>>

FlowKeyEq(k1, k2) == KeyTuple(k1) = KeyTuple(k2)

\* hash() of equal tuples is equal; distinct tuples are kept distinct here
FlowKeyHash(k) == KeyTuple(k)

NoKey == <<>>

----------------------------------------------------------------------------
(* Inputs *)

IpA == <<10, 0, 0, 1>>
IpB == <<10, 0, 0, 2>>
IpC == <<9, 0, 0, 1>>

TestIps == {IpA, IpB, IpC}
TestPorts == {0, 80, 5000}
TestProtocols == {1, 6, 17}
Endpoints == [ip : TestIps, port : TestPorts]

----------------------------------------------------------------------------
(* FlowState *)

NewFlowState ==
    [start_time |-> None, last_time |-> None, total_packets |-> 0,
     fwd_packets |-> 0, fwd_bytes |-> 0, fwd_packet_lengths |-> <<>>,
     fwd_inter_arrival_times |-> <<>>, fwd_last_time |-> None,
     bwd_packets |-> 0, bwd_bytes |-> 0, bwd_packet_lengths |-> <<>>,
     bwd_inter_arrival_times |-> <<>>, bwd_last_time |-> None,
     all_packet_lengths |-> <<>>, all_inter_arrival_times |-> <<>>,
     last_packet_time |-> None,
     tcp_flags_count |-> <<>>, tcp_window_sizes |-> <<>>,
     active_periods |-> <<>>, idle_periods |-> <<>>, last_activity_time |-> None]

\* defaultdict(int): d[k] += 1.  The dict is the sequence of its (key, count)
\* items in insertion order.
DictIncr(d, k) ==
    IF \E i \in 1..Len(d) : d[i][1] = k
    THEN [i \in 1..Len(d) |-> IF d[i][1] = k THEN <<k, d[i][2] + 1>> ELSE d[i]]
    ELSE Append(d, <<k, 1>>)

\* len(d)
DictLen(d) == Len(d)

\* sum(d.values())
RECURSIVE DictSum(_)
DictSum(d) == IF d = <<>> THEN 0 ELSE Head(d)[2] + DictSum(Tail(d))

\* the time fields of lines 72-74
UpdateTiming(st, current_time) ==
    IF st.start_time = None
    THEN [st EXCEPT !.start_time = current_time, !.last_activity_time = current_time]
    ELSE st

\* the inter-arrival branch taken on a truthy last_packet_time
UpdateGeneralTruthy(st, packet_length, current_time) ==
    [st EXCEPT
        !.total_packets = @ + 1,
        !.all_packet_lengths = Append(@, packet_length),
        !.last_time = current_time,
        !.all_inter_arrival_times =
            IF Truthy(st.last_packet_time)
            THEN Append(@, current_time - st.last_packet_time) ELSE @,
        !.last_packet_time = current_time]

\* lines 77-85
UpdateGeneral(st, packet_length, current_time) ==
    [st EXCEPT
        !.total_packets = @ + 1,
        !.all_packet_lengths = Append(@, packet_length),
        !.last_time = current_time,
        !.all_inter_arrival_times =
            IF st.last_packet_time # None
            THEN Append(@, current_time - st.last_packet_time) ELSE @,
        !.last_packet_time = current_time]

UpdateDirectionFwdOnly(st, packet_length, current_time, is_forward) ==
    IF is_forward
    THEN [st EXCEPT
            !.fwd_packets = @ + 1,
            !.fwd_bytes = @ + packet_length,
            !.fwd_packet_lengths = Append(@, packet_length),
            !.fwd_last_time = current_time]
    ELSE st

\* the backward branch without its byte counter
UpdateDirectionNoBwdBytes(st, packet_length, current_time, is_forward) ==
    IF is_forward
    THEN UpdateDirectionFwdOnly(st, packet_length, current_time, is_forward)
    ELSE [st EXCEPT
            !.bwd_packets = @ + 1,
            !.bwd_packet_lengths = Append(@, packet_length),
            !.bwd_last_time = current_time]

\* lines 88-105
UpdateDirection(st, packet_length, current_time, is_forward) ==
    IF is_forward
    THEN [st EXCEPT
            !.fwd_packets = @ + 1,
            !.fwd_bytes = @ + packet_length,
            !.fwd_packet_lengths = Append(@, packet_length),
            !.fwd_inter_arrival_times =
                IF st.fwd_last_time # None
                THEN Append(@, current_time - st.fwd_last_time) ELSE @,
            !.fwd_last_time = current_time]
    ELSE [st EXCEPT
            !.bwd_packets = @ + 1,
            !.bwd_bytes = @ + packet_length,
            !.bwd_packet_lengths = Append(@, packet_length),
            !.bwd_inter_arrival_times =
                IF st.bwd_last_time # None
                THEN Append(@, current_time - st.bwd_last_time) ELSE @,
            !.bwd_last_time = current_time]

\* lines 108-111
UpdateTcp(st, tcp_flags, tcp_window) ==
    [st EXCEPT
        !.tcp_flags_count = IF tcp_flags > 0 THEN DictIncr(@, tcp_flags) ELSE @,
        !.tcp_window_sizes = IF tcp_window > 0 THEN Append(@, tcp_window) ELSE @]

\* the idle test taken on a truthy last_activity_time
UpdateActivityTruthy(st, current_time) ==
    [st EXCEPT
        !.idle_periods =
            IF Truthy(st.last_activity_time)
               /\ current_time - st.last_activity_time > TicksPerSecond
            THEN Append(@, current_time - st.last_activity_time) ELSE @,
        !.last_activity_time = current_time]

\* an update that also records the gaps up to the idle threshold as active
UpdateActivityRecordsActive(st, current_time) ==
    [st EXCEPT
        !.idle_periods =
            IF st.last_activity_time # None
               /\ current_time - st.last_activity_time > TicksPerSecond
            THEN Append(@, current_time - st.last_activity_time) ELSE @,
        !.active_periods =
            IF st.last_activity_time # None
               /\ current_time - st.last_activity_time <= TicksPerSecond
            THEN Append(@, current_time - st.last_activity_time) ELSE @,
        !.last_activity_time = current_time]

\* lines 114-118; the threshold 1.0 s is TicksPerSecond ticks
UpdateActivity(st, current_time) ==
    [st EXCEPT
        !.idle_periods =
            IF st.last_activity_time # None
               /\ current_time - st.last_activity_time > TicksPerSecond
            THEN Append(@, current_time - st.last_activity_time) ELSE @,
        !.last_activity_time = current_time]

\* FlowState.update
FlowUpdate(st, packet_length, timestamp, is_forward, tcp_flags, tcp_window) ==
    UpdateActivity(
        UpdateTcp(
            UpdateDirection(
                UpdateGeneral(UpdateTiming(st, timestamp), packet_length, timestamp),
                packet_length, timestamp, is_forward),
            tcp_flags, tcp_window),
        timestamp)

----------------------------------------------------------------------------
(* Frames: the byte strings handed to the parser *)

U16(n) == <<n \div 256, n % 256>>
U32(n) == <<n \div 16777216, (n \div 65536) % 256, (n \div 256) % 256, n % 256>>

EthFrame(eth_type, payload) ==
    <<2, 0, 0, 0, 0, 2>> \o <<2, 0, 0, 0, 0, 1>> \o U16(eth_type) \o payload

Ipv4Header(version_ihl, tos, total_length, ttl, protocol, src, dst) ==
    <<version_ihl, tos>> \o U16(total_length) \o U16(0) \o U16(0)
        \o <<ttl, protocol>> \o U16(0) \o src \o dst

TcpHeader(src_port, dst_port, seq, ack, flags, window) ==
    U16(src_port) \o U16(dst_port) \o U32(seq) \o U32(ack) \o <<80, flags>>
        \o U16(window) \o U16(0) \o U16(0)

UdpHeader(src_port, dst_port) ==
    U16(src_port) \o U16(dst_port) \o U16(8) \o U16(0)

\* TCP SYN 10.0.0.1:5000 -> 10.0.0.2:80 and the SYN-ACK back
FrameTcpAB ==
    EthFrame(2048, Ipv4Header(69, 0, 40, 64, 6, IpA, IpB)
                   \o TcpHeader(5000, 80, 1000, 0, 2, 1024))
FrameTcpBA ==
    EthFrame(2048, Ipv4Header(69, 0, 40, 64, 6, IpB, IpA)
                   \o TcpHeader(80, 5000, 2000, 1001, 18, 512))
\* UDP 10.0.0.1:53 -> 10.0.0.2:33000
FrameUdp ==
    EthFrame(2048, Ipv4Header(69, 0, 28, 64, 17, IpA, IpB) \o UdpHeader(53, 33000))
\* ICMP echo 9.0.0.1 -> 10.0.0.1
FrameIcmp ==
    EthFrame(2048, Ipv4Header(69, 16, 28, 32, 1, IpC, IpA) \o <<8, 0, 0, 0, 0, 1, 0, 1>>)
\* GRE 10.0.0.2 -> 10.0.0.1, the first payload bytes non-zero
FrameGre ==
    EthFrame(2048, Ipv4Header(69, 0, 28, 64, 47, IpB, IpA) \o <<32, 0, 8, 0, 0, 0, 0, 7>>)
\* an IPv6 frame (EtherType 0x86DD) of 54 bytes
FrameIpv6 ==
    EthFrame(34525, [i \in 1..40 |-> IF i = 1 THEN 96 ELSE 0])
\* a runt of 10 bytes
FrameRunt == SubSeq(FrameTcpAB, 1, 10)
\* EtherType 0x0800 with only 10 bytes of IP header
FrameShortIp == SubSeq(FrameTcpAB, 1, 24)
\* EtherType 0x0800 whose IP version nibble is 6 (version/IHL byte 0x65)
FrameVersion6 ==
    EthFrame(2048, Ipv4Header(101, 0, 40, 64, 6, IpA, IpB)
                   \o TcpHeader(5000, 80, 1000, 0, 2, 1024))
\* the TCP SYN cut to 8 bytes of TCP header
FrameTcpCut == SubSeq(FrameTcpAB, 1, 42)
\* the UDP datagram cut to 4 bytes of UDP header
FrameUdpCut == SubSeq(FrameUdp, 1, 38)

TestFrames ==
    {FrameTcpAB, FrameTcpBA, FrameUdp, FrameIcmp, FrameGre, FrameIpv6, FrameRunt,
     FrameShortIp, FrameVersion6, FrameTcpCut, FrameUdpCut}

----------------------------------------------------------------------------
(* PacketParser: header parsers *)

ETH_P_IP == 2048

\* struct.unpack of big-endian fields at 0-based offset off
Byte(d, off) == d[off + 1]
Be16(d, off) == d[off + 1] * 256 + d[off + 2]
Be32(d, off) ==
    d[off + 1] * 16777216 + d[off + 2] * 65536 + d[off + 3] * 256 + d[off + 4]

\* parse_ethernet_header: the EtherType, or None under 14 bytes
parse_ethernet_header(packet_data) ==
    IF Len(packet_data) < 14 THEN None ELSE Be16(packet_data, 12)

\* parse_ip_header: <<ip_info>> or <<>> for (None, None)
parse_ip_header(packet_data, offset) ==
    IF Len(packet_data) < offset + 20 THEN <<>>
    ELSE <<[version |-> Byte(packet_data, offset) \div 16,
            header_length |-> (Byte(packet_data, offset) % 16) * 4,
            tos |-> Byte(packet_data, offset + 1),
            total_length |-> Be16(packet_data, offset + 2),
            ttl |-> Byte(packet_data, offset + 8),
            protocol |-> Byte(packet_data, offset + 9),
            src_ip |-> inet_ntoa(SubSeq(packet_data, offset + 13, offset + 16)),
            dst_ip |-> inet_ntoa(SubSeq(packet_data, offset + 17, offset + 20)),
            next_offset |-> offset + (Byte(packet_data, offset) % 16) * 4]>>

\* a parser that reads the ports of a header cut after at least 4 bytes
parse_tcp_header_ports(packet_data, offset) ==
    IF Len(packet_data) < offset + 4 THEN <<>>
    ELSE <<[src_port |-> Be16(packet_data, offset),
            dst_port |-> Be16(packet_data, offset + 2),
            seq_num |-> 0, ack_num |-> 0, flags |-> 0, window |-> 0,
            flag_fin |-> 0, flag_syn |-> 0, flag_rst |-> 0, flag_psh |-> 0,
            flag_ack |-> 0, flag_urg |-> 0]>>

\* parse_tcp_header: <<tcp_info>> or <<>> for {}
parse_tcp_header(packet_data, offset) ==
    IF Len(packet_data) < offset + 20 THEN <<>>
    ELSE LET flags == Byte(packet_data, offset + 13) IN
         <<[src_port |-> Be16(packet_data, offset),
            dst_port |-> Be16(packet_data, offset + 2),
            seq_num |-> Be32(packet_data, offset + 4),
            ack_num |-> Be32(packet_data, offset + 8),
            flags |-> flags,
            window |-> Be16(packet_data, offset + 14),
            flag_fin |-> flags % 2,
            flag_syn |-> (flags \div 2) % 2,
            flag_rst |-> (flags \div 4) % 2,
            flag_psh |-> (flags \div 8) % 2,
            flag_ack |-> (flags \div 16) % 2,
            flag_urg |-> (flags \div 32) % 2]>>

\* parse_udp_header: <<udp_info>> or <<>> for {}
parse_udp_header(packet_data, offset) ==
    IF Len(packet_data) < offset + 8 THEN <<>>
    ELSE <<[src_port |-> Be16(packet_data, offset),
            dst_port |-> Be16(packet_data, offset + 2)]>>

----------------------------------------------------------------------------
(* PacketParser: the flow table and its sweeper *)

\* seconds between sweeps, and the idle age at which a flow is evicted
CLEANUP_INTERVAL == 60
FLOW_TIMEOUT == 300

Seconds(n) == n * TicksPerSecond

EmptyTable == [k \in {} |-> NewFlowState]

\* the entries the sweep loop collects in flows_to_remove
FlowsToRemoveNotNone(table, cutoff_time) ==
    {k \in DOMAIN table :
        table[k].last_time # None /\ table[k].last_time < cutoff_time}

FlowsToRemove(table, cutoff_time) ==
    {k \in DOMAIN table :
        Truthy(table[k].last_time) /\ table[k].last_time < cutoff_time}

SweepDueAtInterval(now, lastc) == now - lastc >= Seconds(CLEANUP_INTERVAL)

\* line 200: more than 60 s since the last sweep
SweepDue(now, lastc) == now - lastc > Seconds(CLEANUP_INTERVAL)

\* a sweep on every call that evicts what was idle at the previous sweep
cleanup_since_last(table, lastc, now) ==
    [flow_states |->
        [k \in (DOMAIN table) \ FlowsToRemove(table, lastc - Seconds(FLOW_TIMEOUT))
            |-> table[k]],
     last_cleanup |-> now, ran |-> TRUE]

\* cleanup_old_flows at wall-clock time now
cleanup_old_flows(table, lastc, now) ==
    IF SweepDue(now, lastc)
    THEN LET gone == FlowsToRemove(table, now - Seconds(FLOW_TIMEOUT)) IN
         [flow_states |-> [k \in (DOMAIN table) \ gone |-> table[k]],
          last_cleanup |-> now, ran |-> TRUE]
    ELSE [flow_states |-> table, last_cleanup |-> lastc, ran |-> FALSE]

----------------------------------------------------------------------------
(* PacketParser: features *)

RECURSIVE MinSeq(_)
MinSeq(s) ==
    IF Len(s) = 1 THEN s[1]
    ELSE LET m == MinSeq(Tail(s)) IN IF s[1] <= m THEN s[1] ELSE m

RECURSIVE MaxSeq(_)
MaxSeq(s) ==
    IF Len(s) = 1 THEN s[1]
    ELSE LET m == MaxSeq(Tail(s)) IN IF s[1] >= m THEN s[1] ELSE m

\* int(timestamp * 1000000)
Microseconds(t) ==
    (t \div TicksPerSecond) * 1000000 + ((t % TicksPerSecond) * 1000000) \div TicksPerSecond

\* A float that is a quotient of two integers, kept exact as a fraction in
\* lowest terms with a positive denominator.
RECURSIVE Gcd(_, _)
Gcd(a, b) == IF b = 0 THEN a ELSE Gcd(b, a % b)

Ratio(n, d) == [num |-> n \div Gcd(n, d), den |-> d \div Gcd(n, d)]

Zero == [num |-> 0, den |-> 1]

\* count / max(duration, 1.0)
RateClampedDuration(count, duration) ==
    Ratio(count * TicksPerSecond,
          IF duration > TicksPerSecond THEN duration ELSE TicksPerSecond)

\* lines 344-355: count / duration per second when duration > 0, else 0;
\* duration is in ticks
Rate(count, duration) ==
    IF duration > 0 THEN Ratio(count * TicksPerSecond, duration) ELSE Zero

\* sum of the squares of a list
RECURSIVE SumSquares(_)
SumSquares(s) == IF s = <<>> THEN 0 ELSE Head(s) * Head(s) + SumSquares(Tail(s))

\* statistics.mean of a non-empty list
Mean(s) == Ratio(SumSeq(s), Len(s))

\* statistics.variance of a list of two or more values: the sample variance
Variance(s) ==
    Ratio(Len(s) * SumSquares(s) - SumSeq(s) * SumSeq(s), Len(s) * (Len(s) - 1))

\* the square root of a non-negative fraction: 0 for 0, otherwise the root
\* kept symbolically
Sqrt(r) == IF r.num = 0 THEN Zero ELSE [sqrt |-> r]

\* statistics.stdev
Stdev(s) == Sqrt(Variance(s))

MeanOrZero(s) == IF s # <<>> THEN Mean(s) ELSE Zero

StdevOrZero(s) == IF Len(s) > 1 THEN Stdev(s) ELSE Zero

\* NetworkFeatures(): the integer- and string-valued fields and the rates
NewFeatures ==
    [src_ip |-> <<>>, dst_ip |-> <<>>, src_port |-> 0, dst_port |-> 0, protocol |-> 0,
     packet_length |-> 0, header_length |-> 0, ttl |-> 0, tos |-> 0,
     tcp_flags |-> 0, tcp_window |-> 0, tcp_seq |-> 0, tcp_ack |-> 0,
     tcp_flag_fin |-> 0, tcp_flag_syn |-> 0, tcp_flag_rst |-> 0,
     tcp_flag_psh |-> 0, tcp_flag_ack |-> 0, tcp_flag_urg |-> 0,
     timestamp |-> 0, flow_duration |-> 0,
     total_fwd_packets |-> 0, total_bwd_packets |-> 0,
     total_length_fwd_packets |-> 0, total_length_bwd_packets |-> 0,
     packet_length_min |-> 0, packet_length_max |-> 0,
     tcp_flags_count |-> 0, flow_bytes_total |-> 0,
     flow_bytes_per_second |-> Zero, flow_packets_per_second |-> Zero,
     fwd_packets_per_second |-> Zero, bwd_packets_per_second |-> Zero,
     active_mean |-> Zero, active_std |-> Zero,
     idle_mean |-> Zero, idle_std |-> Zero,
     label |-> "BENIGN"]

\* lines 312-315
FlowDuration(flow_state, current_time) ==
    IF Truthy(flow_state.start_time)
    THEN current_time - flow_state.start_time ELSE 0

\* calculate_flow_statistics: the integer-valued statistics and the rates
calculate_flow_statistics(flow_state, current_time) ==
    [flow_duration |-> FlowDuration(flow_state, current_time),
     active_mean |-> MeanOrZero(flow_state.active_periods),
     active_std |-> StdevOrZero(flow_state.active_periods),
     idle_mean |-> MeanOrZero(flow_state.idle_periods),
     idle_std |-> StdevOrZero(flow_state.idle_periods),
     flow_bytes_per_second |->
        Rate(flow_state.fwd_bytes + flow_state.bwd_bytes,
             FlowDuration(flow_state, current_time)),
     flow_packets_per_second |->
        Rate(flow_state.total_packets, FlowDuration(flow_state, current_time)),
     fwd_packets_per_second |->
        Rate(flow_state.fwd_packets, FlowDuration(flow_state, current_time)),
     bwd_packets_per_second |->
        Rate(flow_state.bwd_packets, FlowDuration(flow_state, current_time)),
     total_fwd_packets |-> flow_state.fwd_packets,
     total_bwd_packets |-> flow_state.bwd_packets,
     total_length_fwd_packets |-> flow_state.fwd_bytes,
     total_length_bwd_packets |-> flow_state.bwd_bytes,
     packet_length_min |->
        IF flow_state.all_packet_lengths # <<>>
        THEN MinSeq(flow_state.all_packet_lengths) ELSE 0,
     packet_length_max |->
        IF flow_state.all_packet_lengths # <<>>
        THEN MaxSeq(flow_state.all_packet_lengths) ELSE 0,
     tcp_flags_count |-> DictSum(flow_state.tcp_flags_count),
     flow_bytes_total |-> flow_state.fwd_bytes + flow_state.bwd_bytes]

IsUdpOrOther(protocol) == protocol # 6

\* line 450: the branch that reads the UDP ports
IsUdp(protocol) == protocol = 17

\* lines 420-454: the IP and transport fields of the record
HeaderFeatures(f0, packet_data, ip_info) ==
    LET f1 == [f0 EXCEPT !.src_ip = ip_info.src_ip, !.dst_ip = ip_info.dst_ip,
                         !.protocol = ip_info.protocol, !.ttl = ip_info.ttl,
                         !.tos = ip_info.tos,
                         !.header_length = ip_info.header_length]
        tcp == parse_tcp_header(packet_data, ip_info.next_offset)
        udp == parse_udp_header(packet_data, ip_info.next_offset)
    IN  IF ip_info.protocol = 6 /\ tcp # <<>>
        THEN [f1 EXCEPT !.src_port = tcp[1].src_port, !.dst_port = tcp[1].dst_port,
                        !.tcp_seq = tcp[1].seq_num, !.tcp_ack = tcp[1].ack_num,
                        !.tcp_flags = tcp[1].flags, !.tcp_window = tcp[1].window,
                        !.tcp_flag_fin = tcp[1].flag_fin,
                        !.tcp_flag_syn = tcp[1].flag_syn,
                        !.tcp_flag_rst = tcp[1].flag_rst,
                        !.tcp_flag_psh = tcp[1].flag_psh,
                        !.tcp_flag_ack = tcp[1].flag_ack,
                        !.tcp_flag_urg = tcp[1].flag_urg]
        ELSE IF IsUdp(ip_info.protocol) /\ udp # <<>>
        THEN [f1 EXCEPT !.src_port = udp[1].src_port, !.dst_port = udp[1].dst_port]
        ELSE f1

\* lines 482-507: the flow statistics copied into the record
WithFlowStats(f, stats) ==
    [f EXCEPT !.flow_duration = stats.flow_duration,
              !.total_fwd_packets = stats.total_fwd_packets,
              !.total_bwd_packets = stats.total_bwd_packets,
              !.total_length_fwd_packets = stats.total_length_fwd_packets,
              !.total_length_bwd_packets = stats.total_length_bwd_packets,
              !.packet_length_min = stats.packet_length_min,
              !.packet_length_max = stats.packet_length_max,
              !.active_mean = stats.active_mean,
              !.active_std = stats.active_std,
              !.idle_mean = stats.idle_mean,
              !.idle_std = stats.idle_std,
              !.flow_bytes_per_second = stats.flow_bytes_per_second,
              !.flow_packets_per_second = stats.flow_packets_per_second,
              !.fwd_packets_per_second = stats.fwd_packets_per_second,
              !.bwd_packets_per_second = stats.bwd_packets_per_second,
              !.tcp_flags_count = stats.tcp_flags_count,
              !.flow_bytes_total = stats.flow_bytes_total]

LookupAlwaysCreate(table, k) == NewFlowState

\* lines 464-467: a fresh FlowState is stored only for a key not in the table
LookupOrCreate(table, k) == IF k \in DOMAIN table THEN table[k] ELSE NewFlowState

\* lines 456-507: key the flow, insert on miss, update, compute statistics.
\* tcp_flags and tcp_window of the update are those of the record: both are
\* set together from tcp_info, and stay 0 otherwise.
TrackFlow(f, timestamp, table) ==
    LET flow_key == FlowKey(f.src_ip, f.dst_ip, f.src_port, f.dst_port, f.protocol)
        k == KeyTuple(flow_key)
        before == LookupOrCreate(table, k)
        after == FlowUpdate(before, f.packet_length, timestamp,
                            flow_key.is_forward, f.tcp_flags, f.tcp_window)
    IN  [features |-> WithFlowStats(f, calculate_flow_statistics(after, timestamp)),
         flow_states |-> [x \in (DOMAIN table) \cup {k} |->
                             IF x = k THEN after ELSE table[x]]]

\* lines 411-507, the body of the try block.  Nothing in it raises on a byte
\* string and a float timestamp, so the except branch (label PARSING_ERROR)
\* is not taken.
ParseBody(f0, packet_data, timestamp, table) ==
    LET eth_type == parse_ethernet_header(packet_data)
        ip == parse_ip_header(packet_data, 14)
    IN  IF eth_type = ETH_P_IP /\ ip # <<>>
        THEN TrackFlow(HeaderFeatures(f0, packet_data, ip[1]), timestamp, table)
        ELSE [features |-> f0, flow_states |-> table]

\* parse_packet(packet_data, timestamp) called at wall-clock time now
parse_packet(packet_data, timestamp, now, table, lastc) ==
    LET f0 == [NewFeatures EXCEPT !.timestamp = Microseconds(timestamp),
                                  !.packet_length = Len(packet_data)]
        swept == cleanup_old_flows(table, lastc, now)
        r == ParseBody(f0, packet_data, timestamp, swept.flow_states)
    IN  [features |-> r.features, flow_states |-> r.flow_states,
         last_cleanup |-> swept.last_cleanup, swept |-> swept.ran]

----------------------------------------------------------------------------
(* The bus producer and the application callback *)

\* str(n) of a non-negative int, as character codes
RECURSIVE Str(_)
Str(n) == IF n < 10 THEN <<48 + n>> ELSE Append(Str(n \div 10), 48 + (n % 10))

\* message_data.get(key, default) on the dict built by features_to_dict,
\* which holds every field of the record under its own name
DictGet(message_data, key, default) ==
    IF key \in DOMAIN message_data THEN message_data[key] ELSE default

\* "unknown" as character codes
Unknown == <<117, 110, 107, 110, 111, 119, 110>>

\* the key send_message generates:
\* f"{message_data.get('src_ip', 'unknown')}:{message_data.get('src_port', 0)}"
PartitionKey(message_data) ==
    DictGet(message_data, "src_ip", Unknown) \o <<58>>
        \o Str(DictGet(message_data, "src_port", 0))

\* KafkaProducerClient.send_message: produce() either enqueues the message
\* or raises (queue full, serialisation); the exception is caught and the
\* call returns False.
send_message(message, produce_raises, queue) ==
    IF produce_raises
    THEN [success |-> FALSE, sent |-> queue]
    ELSE [success |-> TRUE, sent |-> Append(queue, message)]

\* packet_callback after parse_packet returned r: features_to_dict, then
\* send_message; a False result is logged
EmitFeatures(r, fault, queue) ==
    [flow_states |-> r.flow_states, last_cleanup |-> r.last_cleanup,
     features |-> r.features,
     sent |-> send_message(r.features, fault = "emit", queue).sent,
     outcome |-> IF send_message(r.features, fault = "emit", queue).success
                 THEN "ok" ELSE "send_failed",
     raised |-> FALSE]

\* a callback that restores the flow table when the producer refuses the record
packet_callback_rollback(packet_data, timestamp, fault, table, lastc, queue) ==
    IF fault \in {"parse", "emit"}
    THEN [flow_states |-> table, last_cleanup |-> lastc, features |-> NewFeatures,
          sent |-> queue,
          outcome |-> IF fault = "emit" THEN "send_failed" ELSE "callback_error",
          raised |-> FALSE]
    ELSE EmitFeatures(parse_packet(packet_data, timestamp, timestamp, table, lastc),
                      fault, queue)

\* NetworkCaptureApplication.packet_callback.  fault "parse" is an exception
\* leaving parse_packet or features_to_dict, fault "emit" one raised by
\* produce(); the callback's own except clause catches the first, and
\* send_message the second.
packet_callback(packet_data, timestamp, fault, table, lastc, queue) ==
    IF fault = "parse"
    THEN [flow_states |-> table, last_cleanup |-> lastc, features |-> NewFeatures,
          sent |-> queue, outcome |-> "callback_error", raised |-> FALSE]
    ELSE EmitFeatures(parse_packet(packet_data, timestamp, timestamp, table, lastc),
                      fault, queue)

----------------------------------------------------------------------------
(* DPDKWrapper and the capture loop *)

NULL == 0

\* DPDKWrapper.free_packet: rte_pktmbuf_free on a non-null handle
free_packet(counts, mbuf) ==
    IF mbuf # NULL THEN [counts EXCEPT ![mbuf] = @ + 1] ELSE counts

ReleaseMbufOnSuccess(counts, mbuf_ptr, raised) ==
    IF raised THEN counts ELSE free_packet(counts, mbuf_ptr)

\* the finally clause of the per-packet try: runs whether or not the try
\* block raised
ReleaseMbuf(counts, mbuf_ptr, raised) == free_packet(counts, mbuf_ptr)

EscapesUncaught(raised) == raised

\* the per-packet "except Exception" clause: whether an exception raised in
\* the try block leaves the for loop
Escapes(raised) == FALSE

LoopConditionAlways(flag) == TRUE

\* the condition of "while self.running"
LoopCondition(flag) == flag

\* lines 116-118: the callback returned c (or raised); count the packet
AfterCallback(c, count) ==
    [flow_states |-> c.flow_states, last_cleanup |-> c.last_cleanup,
     features |-> c.features, sent |-> c.sent,
     packet_count |-> IF c.raised THEN count ELSE count + 1,
     outcome |-> c.outcome, raised |-> c.raised]

\* the try block of the for loop for one buffer: read the mbuf (fault "read"
\* raises there), and call the callback when the data is non-empty
TryBlock(packet_data, fault, now, table, lastc, queue, count) ==
    IF fault = "read"
    THEN [flow_states |-> table, last_cleanup |-> lastc, features |-> NewFeatures,
          sent |-> queue, packet_count |-> count,
          outcome |-> "read_error", raised |-> TRUE]
    ELSE IF packet_data = <<>>
    THEN [flow_states |-> table, last_cleanup |-> lastc, features |-> NewFeatures,
          sent |-> queue, packet_count |-> count,
          outcome |-> "empty", raised |-> FALSE]
    ELSE AfterCallback(
            packet_callback(packet_data, now, fault, table, lastc, queue), count)

----------------------------------------------------------------------------
(* Initial values of each group of variables *)

KeyInit ==
    /\ k_src = NoKey /\ k_dst = NoKey /\ k_proto = 0
    /\ key_ab = NoKey /\ key_ba = NoKey

FlowInit == fs = NewFlowState /\ fs_calls = 0 /\ fs_flagged = 0

\* the class attributes of PacketParser at import: an empty table, and
\* last_cleanup = time.time()
ParserInit ==
    /\ flow_states = EmptyTable
    /\ clock = Seconds(StartClock)
    /\ last_cleanup = clock
    /\ features = NewFeatures
    /\ last_frame = <<>>
    /\ last_ts = 0
    /\ last_op = "none"
    /\ sweep_ran = FALSE
    /\ ops = 0
    /\ replay = <<>>

\* NetworkCaptureApplication.__init__ and DPDKPacketCapture.__init__
LoopInit ==
    /\ pc = "idle"
    /\ init_calls = <<>>
    /\ init_failed_at = 0
    /\ running = FALSE
    /\ app_running = TRUE
    /\ mempool = FALSE
    /\ mbufs = <<>>
    /\ idx = 0
    /\ freed = <<>>
    /\ packet_count = 0
    /\ sent = <<>>
    /\ log = <<>>
    /\ rx_bursts = 0
    /\ signalled_at = "none"
    /\ loop_error = FALSE
    /\ run_result = TRUE
    /\ flushes = 0
    /\ exit_code = None
    /\ stop_at = <<>>

----------------------------------------------------------------------------
(* FlowKey built for a packet a -> b and for the reply b -> a *)

InitKeys ==
    /\ k_src \in Endpoints /\ k_dst \in Endpoints /\ k_proto \in TestProtocols
    /\ key_ab = NoKey /\ key_ba = NoKey
    /\ FlowInit /\ ParserInit /\ LoopInit

BuildKeys ==
    /\ key_ab = NoKey
    /\ key_ab' = <<FlowKey(inet_ntoa(k_src.ip), inet_ntoa(k_dst.ip),
                           k_src.port, k_dst.port, k_proto)>>
    /\ key_ba' = <<FlowKey(inet_ntoa(k_dst.ip), inet_ntoa(k_src.ip),
                           k_dst.port, k_src.port, k_proto)>>
    /\ UNCHANGED <<k_src, k_dst, k_proto, flowVars, parserVars, loopVars>>

NextKeys == BuildKeys

SpecKeys == InitKeys /\ [][NextKeys]_vars

----------------------------------------------------------------------------
(* One FlowState under a sequence of update() calls *)

TestLengths == {60, 1500}
TestTimes == {0, (3 * TicksPerSecond) \div 2, 3 * TicksPerSecond}
\* (tcp_flags, tcp_window) of a non-TCP packet and of a SYN-ACK
TestTcp == {<<0, 0>>, <<18, 1024>>}

InitFlow == KeyInit /\ FlowInit /\ ParserInit /\ LoopInit

Update(packet_length, timestamp, is_forward, tcp) ==
    /\ fs_calls < MaxUpdates
    /\ fs' = FlowUpdate(fs, packet_length, timestamp, is_forward, tcp[1], tcp[2])
    /\ fs_calls' = fs_calls + 1
    /\ fs_flagged' = IF tcp[1] > 0 THEN fs_flagged + 1 ELSE fs_flagged
    /\ UNCHANGED <<keyVars, parserVars, loopVars>>

NextFlow ==
    \E packet_length \in TestLengths, timestamp \in TestTimes,
       is_forward \in BOOLEAN, tcp \in TestTcp :
        Update(packet_length, timestamp, is_forward, tcp)

SpecFlow == InitFlow /\ [][NextFlow]_vars

----------------------------------------------------------------------------
(* The parser called directly: parse_packet, cleanup_old_flows, the clock *)

\* seconds by which the wall clock advances between calls
TestDelays == {60, 299, 301}

InitParser == KeyInit /\ FlowInit /\ ParserInit /\ LoopInit

\* parse_packet(frame, timestamp): the timestamp is the caller's, either the
\* capture time or a simulated time 0
ParsePacket(frame, timestamp) ==
    /\ ops < MaxOps
    /\ \E r \in {parse_packet(frame, timestamp, clock, flow_states, last_cleanup)} :
        /\ flow_states' = r.flow_states
        /\ last_cleanup' = r.last_cleanup
        /\ features' = r.features
        /\ sweep_ran' = r.swept
    /\ last_frame' = frame
    /\ last_ts' = timestamp
    /\ last_op' = "parse"
    /\ ops' = ops + 1
    /\ UNCHANGED <<clock, replay, keyVars, flowVars, loopVars>>

\* PacketParser.cleanup_old_flows() called on its own
Sweep ==
    /\ ops < MaxOps
    /\ \E r \in {cleanup_old_flows(flow_states, last_cleanup, clock)} :
        /\ flow_states' = r.flow_states
        /\ last_cleanup' = r.last_cleanup
        /\ sweep_ran' = r.ran
    /\ last_op' = "sweep"
    /\ ops' = ops + 1
    /\ UNCHANGED <<clock, features, last_frame, last_ts, replay,
                   keyVars, flowVars, loopVars>>

Tick(seconds) ==
    /\ ops < MaxOps
    /\ clock' = clock + Seconds(seconds)
    /\ last_op' = "tick"
    /\ sweep_ran' = FALSE
    /\ ops' = ops + 1
    /\ UNCHANGED <<flow_states, last_cleanup, features, last_frame, last_ts, replay,
                   keyVars, flowVars, loopVars>>

NextParser ==
    \/ \E frame \in TestFrames, timestamp \in {0, clock} : ParsePacket(frame, timestamp)
    \/ Sweep
    \/ \E seconds \in TestDelays : Tick(seconds)

SpecParser == InitParser /\ [][NextParser]_vars

----------------------------------------------------------------------------
(* Two runs of the parser over the same packets.  Each run is a process of
   its own: its PacketParser class starts with an empty flow table and
   last_cleanup = time.time() at import, and each parse_packet call reads
   that run's wall clock. *)

\* the frames and the timestamps of the recorded packets
ReplayFrames == {FrameTcpAB, FrameTcpBA, FrameUdp}
ReplayTimes == {Seconds(StartClock), Seconds(StartClock + 30)}
\* seconds of wall-clock time a run lets pass before it parses the next packet
ReplayDelays == {0, 301}
\* seconds after the first run at which the second run is started
ReplayOffsets == {0, 1000}

\* PacketParser of a process started at wall-clock time now
NewRun(now) ==
    [flow_states |-> EmptyTable, last_cleanup |-> now, clock |-> now, out |-> <<>>]

\* the run after parse_packet returned r at wall-clock time now
RunAfter(run, now, r) ==
    [flow_states |-> r.flow_states, last_cleanup |-> r.last_cleanup,
     clock |-> now, out |-> Append(run.out, r.features)]

\* one run waits delay seconds and calls parse_packet(frame, timestamp)
ReplayRun(run, frame, timestamp, delay) ==
    RunAfter(run, run.clock + Seconds(delay),
             parse_packet(frame, timestamp, run.clock + Seconds(delay),
                          run.flow_states, run.last_cleanup))

InitReplay ==
    /\ KeyInit /\ FlowInit /\ LoopInit
    /\ flow_states = EmptyTable
    /\ clock = Seconds(StartClock)
    /\ last_cleanup = clock
    /\ features = NewFeatures
    /\ last_frame = <<>>
    /\ last_ts = 0
    /\ last_op = "none"
    /\ sweep_ran = FALSE
    /\ ops = 0
    /\ \E offset \in ReplayOffsets :
          replay = <<NewRun(Seconds(StartClock)), NewRun(Seconds(StartClock + offset))>>

\* the next recorded packet is parsed by both runs
ReplayPacket(frame, timestamp, delay_a, delay_b) ==
    /\ ops < MaxOps
    /\ replay' = <<ReplayRun(replay[1], frame, timestamp, delay_a),
                   ReplayRun(replay[2], frame, timestamp, delay_b)>>
    /\ last_frame' = frame
    /\ last_ts' = timestamp
    /\ last_op' = "parse"
    /\ ops' = ops + 1
    /\ UNCHANGED <<flow_states, last_cleanup, clock, features, sweep_ran,
                   keyVars, flowVars, loopVars>>

NextReplay ==
    \E frame \in ReplayFrames, timestamp \in ReplayTimes,
       delay_a \in ReplayDelays, delay_b \in ReplayDelays :
        ReplayPacket(frame, timestamp, delay_a, delay_b)

SpecReplay == InitReplay /\ [][NextReplay]_vars

----------------------------------------------------------------------------
(* The application: run(), the capture loop, stop and signals *)

\* packet data the driver delivers: a TCP frame, and an mbuf with no data
\* (get_packet_data returns b'')
LoopFrames == {FrameTcpAB, <<>>}
\* where an exception strikes while one buffer is handled
Faults == {"none", "read", "parse", "emit"}

InitLoop == KeyInit /\ FlowInit /\ ParserInit /\ LoopInit

\* the driver calls of initialize(): EAL init, port count, pool creation,
\* port configure, RX and TX queue setup, port start
InitCalls ==
    <<"rte_eal_init", "rte_eth_dev_count_avail", "rte_pktmbuf_pool_create",
      "rte_eth_dev_configure", "rte_eth_rx_queue_setup", "rte_eth_tx_queue_setup",
      "rte_eth_dev_start">>

\* run(): capture.initialize() succeeds and the pool is created
InitializeOk ==
    /\ pc = "idle"
    /\ mempool' = TRUE
    /\ init_calls' = init_calls \o InitCalls
    /\ pc' = "initialized"
    /\ UNCHANGED <<init_failed_at, running, app_running, mbufs, idx, freed, packet_count, sent, log,
                   rx_bursts, signalled_at, loop_error, run_result, flushes, exit_code,
                   stop_at, keyVars, flowVars, parserVars>>

CallsDespiteFailure(failing) == InitCalls

\* the driver calls initialize() makes when its failing-th call fails: the
\* wrapper raises (or the port count is 0) and the except clause returns
\* False, so no later call is made
CallsUntilFailure(failing) == SubSeq(InitCalls, 1, failing)

\* self.mempool is assigned once the pool creation has returned a pool
PoolAssigned(failing) ==
    \E i \in 1..(failing - 1) : InitCalls[i] = "rte_pktmbuf_pool_create"

ReturnSkipsFinally(result) == "exited"

\* "return result" inside the try block of run(): the finally clause runs
\* cleanup() before run() returns
ReturnInsideTry(result) == "cleanup"

\* run(): capture.initialize() returns False because its failing-th driver
\* call failed, and run() returns False
InitializeFails(failing) ==
    /\ pc = "idle"
    /\ run_result' = FALSE
    /\ init_calls' = init_calls \o CallsUntilFailure(failing)
    /\ init_failed_at' = failing
    /\ mempool' = PoolAssigned(failing)
    /\ pc' = ReturnInsideTry(FALSE)
    /\ UNCHANGED <<running, app_running, mbufs, idx, freed, packet_count, sent,
                   log, rx_bursts, signalled_at, loop_error, flushes, exit_code,
                   stop_at, keyVars, flowVars, parserVars>>

\* initialize() called on a capture object that is already initialized:
\* the method has no guard, so it calls rte_eal_init again; the EAL refuses
\* a second initialization, the wrapper raises, and initialize() returns
\* False with mempool as it was
InitializeAgain ==
    /\ pc = "initialized"
    /\ init_calls = InitCalls
    /\ init_calls' = Append(init_calls, InitCalls[1])
    /\ UNCHANGED <<init_failed_at, pc, running, app_running, mempool, mbufs, idx, freed, packet_count,
                   sent, log, rx_bursts, signalled_at, loop_error, run_result, flushes,
                   exit_code, stop_at, keyVars, flowVars, parserVars>>

\* start_capture up to the loop: the pool exists, running = True
StartCapture ==
    /\ pc = "initialized"
    /\ mempool
    /\ running' = TRUE
    /\ pc' = "loop"
    /\ UNCHANGED <<init_failed_at, init_calls, app_running, mempool, mbufs, idx, freed, packet_count, sent, log,
                   rx_bursts, signalled_at, loop_error, run_result, flushes, exit_code,
                   stop_at, keyVars, flowVars, parserVars>>

\* "while self.running" holds and receive_packets returns n > 0 fresh handles
ReceiveBurst(n) ==
    /\ pc = "loop"
    /\ LoopCondition(running)
    /\ Len(freed) + n <= MaxBuffers
    /\ mbufs' = [i \in 1..n |-> Len(freed) + i]
    /\ freed' = freed \o [i \in 1..n |-> 0]
    /\ idx' = 1
    /\ rx_bursts' = rx_bursts + 1
    /\ pc' = "for"
    /\ UNCHANGED <<init_failed_at, init_calls, running, app_running, mempool, packet_count, sent, log, signalled_at,
                   loop_error, run_result, flushes, exit_code,
                   stop_at, keyVars, flowVars, parserVars>>

\* receive_packets returns no handle: sleep 1 ms, then continue
ReceiveNone ==
    /\ pc = "loop"
    /\ LoopCondition(running)
    /\ pc' = "sleep"
    /\ UNCHANGED <<init_failed_at, init_calls, running, app_running, mempool, mbufs, idx, freed, packet_count, sent,
                   log, rx_bursts, signalled_at, loop_error, run_result, flushes, exit_code,
                   stop_at, keyVars, flowVars, parserVars>>

Wake ==
    /\ pc = "sleep"
    /\ pc' = "loop"
    /\ UNCHANGED <<init_failed_at, init_calls, running, app_running, mempool, mbufs, idx, freed, packet_count, sent,
                   log, rx_bursts, signalled_at, loop_error, run_result, flushes, exit_code,
                   stop_at, keyVars, flowVars, parserVars>>

\* receive_packets raises: the outer "except Exception" logs and the loop ends
ReceiveRaises ==
    /\ pc = "loop"
    /\ LoopCondition(running)
    /\ loop_error' = TRUE
    /\ pc' = "finally"
    /\ UNCHANGED <<init_failed_at, init_calls, running, app_running, mempool, mbufs, idx, freed, packet_count, sent,
                   log, rx_bursts, signalled_at, run_result, flushes, exit_code,
                   stop_at, keyVars, flowVars, parserVars>>

\* "while self.running" fails
LoopExit ==
    /\ pc = "loop"
    /\ ~LoopCondition(running)
    /\ pc' = "finally"
    /\ UNCHANGED <<init_failed_at, init_calls, running, app_running, mempool, mbufs, idx, freed, packet_count, sent,
                   log, rx_bursts, signalled_at, loop_error, run_result, flushes, exit_code,
                   stop_at, keyVars, flowVars, parserVars>>

NextMbufReversed(burst, i) == burst[Len(burst) + 1 - i]

\* "for mbuf_ptr in mbufs": the i-th buffer the loop takes from the burst
NextMbuf(burst, i) == burst[i]

\* one iteration of "for mbuf_ptr in mbufs": try, except, finally
ProcessPacket(packet_data, fault) ==
    /\ pc = "for"
    /\ \E mbuf_ptr \in {NextMbuf(mbufs, idx)},
          t \in {TryBlock(packet_data, fault, clock, flow_states, last_cleanup,
                          sent, packet_count)} :
           /\ flow_states' = t.flow_states
           /\ last_cleanup' = t.last_cleanup
           /\ features' = t.features
           /\ sent' = t.sent
           /\ packet_count' = t.packet_count
           /\ log' = Append(log, [mbuf |-> mbuf_ptr, burst |-> rx_bursts,
                                  outcome |-> t.outcome])
           /\ freed' = ReleaseMbuf(freed, mbuf_ptr, t.raised)
           /\ IF Escapes(t.raised)
              THEN loop_error' = TRUE /\ pc' = "finally" /\ idx' = idx
              ELSE /\ loop_error' = loop_error
                   /\ idx' = idx + 1
                   /\ pc' = IF idx = Len(mbufs) THEN "loop" ELSE "for"
    /\ last_frame' = packet_data
    /\ last_ts' = clock
    /\ last_op' = "parse"
    /\ UNCHANGED <<init_failed_at, init_calls, running, app_running, mempool, mbufs, rx_bursts, signalled_at,
                   run_result, flushes, exit_code, stop_at, clock, sweep_ran, ops,
                   replay, keyVars, flowVars>>

\* the finally clause of start_capture: stop_capture(), then return to run()
CaptureFinally ==
    /\ pc = "finally"
    /\ running' = FALSE
    /\ pc' = "cleanup"
    /\ UNCHANGED <<init_failed_at, init_calls, app_running, mempool, mbufs, idx, freed, packet_count, sent, log,
                   rx_bursts, signalled_at, loop_error, run_result, flushes, exit_code,
                   stop_at, keyVars, flowVars, parserVars>>

\* the finally clause of run(): cleanup() stops the capture and closes the
\* producer; main() exits 0 if run() returned True, 1 otherwise
Cleanup ==
    /\ pc = "cleanup"
    /\ running' = FALSE
    /\ flushes' = flushes + 1
    /\ exit_code' = IF run_result THEN 0 ELSE 1
    /\ pc' = "exited"
    /\ UNCHANGED <<init_failed_at, init_calls, app_running, mempool, mbufs, idx, freed, packet_count, sent, log,
                   rx_bursts, signalled_at, loop_error, run_result, stop_at,
                   keyVars, flowVars, parserVars>>

\* DPDKPacketCapture.stop_capture() called while the loop runs (from the
\* callback or from another caller of the capture object)
StopCapture ==
    /\ pc \in {"loop", "sleep", "for"}
    /\ running
    /\ running' = FALSE
    /\ stop_at' = <<[pc |-> pc, handled |-> Len(log), received |-> Len(freed)]>>
    /\ UNCHANGED <<init_failed_at, init_calls, pc, app_running, mempool, mbufs, idx, freed, packet_count, sent, log,
                   rx_bursts, signalled_at, loop_error, run_result, flushes, exit_code,
                   keyVars, flowVars, parserVars>>

\* NetworkCaptureApplication.signal_handler on SIGINT or SIGTERM
SignalHandler ==
    /\ pc # "exited"
    /\ signalled_at = "none"
    /\ app_running' = FALSE
    /\ signalled_at' = pc
    /\ UNCHANGED <<init_failed_at, init_calls, pc, running, mempool, mbufs, idx, freed, packet_count, sent, log,
                   rx_bursts, loop_error, run_result, flushes, exit_code,
                   stop_at, keyVars, flowVars, parserVars>>

\* the steps of the thread that runs run()
AppThread ==
    \/ InitializeOk
    \/ \E failing \in 1..Len(InitCalls) : InitializeFails(failing)
    \/ InitializeAgain
    \/ StartCapture
    \/ \E n \in 1..MaxBurst : ReceiveBurst(n)
    \/ ReceiveNone
    \/ Wake
    \/ ReceiveRaises
    \/ LoopExit
    \/ \E packet_data \in LoopFrames, fault \in Faults : ProcessPacket(packet_data, fault)
    \/ CaptureFinally
    \/ Cleanup

NextLoop == AppThread \/ StopCapture \/ SignalHandler

SpecLoop == InitLoop /\ [][NextLoop]_vars

\* the application thread keeps running: it is never suspended for ever
SpecLoopFair == SpecLoop /\ WF_vars(AppThread)

----------------------------------------------------------------------------
(* Properties of the capture loop's buffer handling *)

Handles == 1..Len(freed)
\* the handles of the current burst not yet handled by the for loop
Pending == IF pc = "for" THEN {mbufs[i] : i \in idx..Len(mbufs)} ELSE {}
InLoop == pc \in {"loop", "sleep", "for"}
LoopEnded == pc \in {"finally", "cleanup", "exited"}
Outcomes == {log[i].outcome : i \in 1..Len(log)}
ErrorOutcomes == {"read_error", "callback_error", "send_failed"}

\* C1: every buffer handle a burst receive returned is freed exactly once,
\* whether its callback returned normally, its data was empty, or an
\* exception was raised while reading, parsing or emitting: a handle is
\* never freed twice, a handle not yet freed is one the for loop has still
\* to reach, and such a handle has not been freed early.
C1_ReleasedExactlyOnce ==
    /\ \A h \in Handles : freed[h] <= 1
    /\ \A h \in Handles : (freed[h] = 0) <=> (h \in Pending)
    /\ Len(log) = Cardinality({h \in Handles : freed[h] = 1})

\* a run in which a read error, an empty buffer and a delivered packet have
\* all been handled and the loop is between bursts
C1_Witness ==
    /\ pc = "loop"
    /\ {"read_error", "empty", "ok"} \subseteq Outcomes
    /\ \A h \in Handles : freed[h] = 1

\* C6: once stop_capture() has set running to false during the loop, the
\* loop issues no further burst receive (with or without buffers, or
\* raising), the flag stays false, the buffers of the burst in progress are
\* still handled one by one, and when the loop has ended every buffer that
\* was received has been handled and freed once.
C6_NoBurstAfterStop ==
    /\ [][(InLoop /\ ~running) =>
            /\ ~running'
            /\ rx_bursts' = rx_bursts /\ Len(freed') = Len(freed)
            /\ loop_error' = loop_error
            /\ (pc = "loop" => pc' \in {"loop", "finally"})
            /\ (pc = "for" => pc' \in {"for", "loop"})]_vars
    /\ [](stop_at # <<>> => Len(freed) = stop_at[1].received)
    /\ [](LoopEnded =>
            /\ \A h \in Handles : freed[h] = 1
            /\ Len(log) = Len(freed))

\* stop_capture() was called inside a burst with buffers still to handle,
\* and the loop has since ended with all of them handled and freed
C6_Witness ==
    /\ stop_at # <<>>
    /\ stop_at[1].pc = "for"
    /\ pc = "finally"
    /\ ~loop_error
    /\ Len(log) >= stop_at[1].handled + 2
    /\ Len(log) = stop_at[1].received
    /\ \A h \in Handles : freed[h] = 1

\* C7: handling one buffer never ends the capture loop, whatever the packet
\* and whatever exception is raised while reading, parsing or emitting: the
\* step moves to the next buffer of the burst, or back to the burst receive
\* after the last one, leaves the running flag as it was and reports no
\* error to the outer handler.
C7_PacketErrorKeepsLoop ==
    [][(pc = "for" /\ Len(log') = Len(log) + 1) =>
        /\ running' = running
        /\ loop_error' = loop_error
        /\ mbufs' = mbufs
        /\ idx' = idx + 1
        /\ pc' = (IF idx < Len(mbufs) THEN "for" ELSE "loop")]_vars

\* an exception struck a buffer, a later buffer of the same burst was
\* handled, and so was a buffer of a later burst
C7_Witness ==
    \E i, j, k \in 1..Len(log) :
        /\ i < j /\ j < k
        /\ log[i].outcome \in ErrorOutcomes
        /\ log[j].burst = log[i].burst
        /\ log[k].burst > log[i].burst
        /\ running

\* C5: a SIGINT or SIGTERM delivered while the capture loop runs is followed
\* by the end of the loop and the return of run() (the process exits).
C5_SignalStopsLoop == (signalled_at \in {"loop", "sleep", "for"}) ~> (pc = "exited")

\* C11: after any sequence of update calls the list of inter-arrival times
\* holds one entry per packet after the first: its length is
\* max(0, total_packets - 1).
C11_IatLength ==
    Len(fs.all_inter_arrival_times) =
        (IF fs.total_packets >= 1 THEN fs.total_packets - 1 ELSE 0)

\* three packets were recorded, the first of them at time 0
C11_Witness ==
    /\ fs.total_packets = 3
    /\ fs.start_time = 0
    /\ Len(fs.all_inter_arrival_times) = 2

\* C12: after any sequence of update calls fwd_bytes is the sum of
\* fwd_packet_lengths and bwd_bytes is the sum of bwd_packet_lengths.
C12_BytesAreSums ==
    /\ fs.fwd_bytes = SumSeq(fs.fwd_packet_lengths)
    /\ fs.bwd_bytes = SumSeq(fs.bwd_packet_lengths)

\* packets of different lengths were recorded in both directions
C12_Witness ==
    /\ fs.fwd_packets >= 1 /\ fs.bwd_packets >= 2
    /\ fs.bwd_bytes = 1560
    /\ fs.fwd_bytes >= 60

\* C13: a FlowState that has received at least one packet has
\* last_time >= start_time, in whatever order the timestamps were passed.
C13_LastNotBeforeStart ==
    fs.total_packets >= 1 => fs.last_time >= fs.start_time

\* C14: every element of all_inter_arrival_times, fwd_inter_arrival_times,
\* bwd_inter_arrival_times and idle_periods is non-negative.
C14_IntervalsNonNegative ==
    /\ \A i \in 1..Len(fs.all_inter_arrival_times) : fs.all_inter_arrival_times[i] >= 0
    /\ \A i \in 1..Len(fs.fwd_inter_arrival_times) : fs.fwd_inter_arrival_times[i] >= 0
    /\ \A i \in 1..Len(fs.bwd_inter_arrival_times) : fs.bwd_inter_arrival_times[i] >= 0
    /\ \A i \in 1..Len(fs.idle_periods) : fs.idle_periods[i] >= 0

----------------------------------------------------------------------------
(* Properties of FlowState and FlowKey *)

\* C2: after any sequence of update calls, total_packets is the sum of
\* fwd_packets and bwd_packets.
C2_TotalIsFwdPlusBwd == fs.total_packets = fs.fwd_packets + fs.bwd_packets

\* updates in both directions have been applied
C2_Witness ==
    /\ fs.fwd_packets >= 1 /\ fs.bwd_packets >= 1 /\ fs.total_packets >= 3

KeysBuilt == key_ab # <<>>

----------------------------------------------------------------------------
(* Properties of the parser and the sweeper *)

\* the entries of a table whose last_time is not older than the horizon
Retained(table, now) ==
    [k \in {x \in DOMAIN table : table[x].last_time >= now - Seconds(FLOW_TIMEOUT)}
        |-> table[k]]

\* no entry of the table is new or modified in the step
NoFlowTouched ==
    \A k \in DOMAIN flow_states' :
        k \in DOMAIN flow_states /\ flow_states'[k] = flow_states[k]

ParseStep == last_op' = "parse" /\ ops' = ops + 1

\* the record carries nothing but packet_length and timestamp
BasicFieldsOnly(f, frame, timestamp) ==
    f = [NewFeatures EXCEPT !.packet_length = Len(frame),
                            !.timestamp = Microseconds(timestamp),
                            !.label = f.label]

\* C4: whenever a sweep executes at time now, the table afterwards holds
\* exactly the entries it held before whose last_time >= now - 300 s,
\* unmodified, for every value of last_time including 0.
C4_SweepRemovesExactlyExpired ==
    [][(last_op' = "sweep" /\ ops' = ops + 1 /\ sweep_ran') =>
        flow_states' = Retained(flow_states, clock)]_vars

\* C8: for a frame whose EtherType is not 0x0800, parse_packet returns a
\* record with label PARSING_ERROR, packet_length and timestamp set,
\* src_ip "" and protocol 0, and leaves the flow table unchanged.
C8_NonIpv4IsParsingError ==
    [][(ParseStep /\ Len(last_frame') >= 14
            /\ parse_ethernet_header(last_frame') # ETH_P_IP) =>
        /\ features'.label = "PARSING_ERROR"
        /\ features'.packet_length = Len(last_frame')
        /\ features'.timestamp = Microseconds(last_ts')
        /\ features'.src_ip = <<>>
        /\ features'.protocol = 0
        /\ flow_states' = flow_states]_vars

\* C9: for a frame shorter than 14 bytes, and for an IPv4 frame with fewer
\* than 20 bytes after offset 14, parse_packet returns a record with label
\* PARSING_ERROR carrying only packet_length and timestamp, and creates or
\* updates no flow.
C9_PartialFrameIsParsingError ==
    [][(ParseStep
            /\ \/ Len(last_frame') < 14
               \/ (parse_ethernet_header(last_frame') = ETH_P_IP
                      /\ Len(last_frame') < 34)) =>
        /\ features'.label = "PARSING_ERROR"
        /\ BasicFieldsOnly(features', last_frame', last_ts')
        /\ NoFlowTouched]_vars

\* C10: for a frame with EtherType 0x0800 whose IP version nibble is not 4,
\* no IP-level field of the record is populated and no flow is created or
\* updated.
C10_VersionNot4Unparseable ==
    [][(ParseStep /\ Len(last_frame') >= 34
            /\ parse_ethernet_header(last_frame') = ETH_P_IP
            /\ Byte(last_frame', 14) \div 16 # 4) =>
        /\ BasicFieldsOnly(features', last_frame', last_ts')
        /\ NoFlowTouched]_vars

----------------------------------------------------------------------------
(* Properties of the emitted flow statistics *)

\* the frame reaches the flow-tracking code of parse_packet
Tracked(frame) ==
    parse_ethernet_header(frame) = ETH_P_IP /\ parse_ip_header(frame, 14) # <<>>

\* the table key of the flow a record belongs to
FlowOf(f) == KeyTuple(FlowKey(f.src_ip, f.dst_ip, f.src_port, f.dst_port, f.protocol))

\* the last operation was parse_packet on a frame whose flow is tracked
ParsedTracked == last_op = "parse" /\ Tracked(last_frame)

\* C15: the flow_duration emitted for a parsed packet equals
\* last_time - start_time of its flow after the update and is never
\* negative, for every start time, a first packet at timestamp 0 included.
C15_DurationIsLastMinusStart ==
    ParsedTracked =>
        /\ features.flow_duration =
              flow_states[FlowOf(features)].last_time
                - flow_states[FlowOf(features)].start_time
        /\ features.flow_duration >= 0

\* r is the float count / seconds, with the duration given in ticks
IsQuotient(r, count, duration) ==
    r.den > 0 /\ r.num * duration = count * TicksPerSecond * r.den

\* C16: a record whose flow_duration is 0 carries exactly 0 in its four rate
\* fields, and a record whose flow_duration is positive carries in each the
\* corresponding count divided by flow_duration: bytes, packets, forward
\* packets and backward packets per second.
C16_RatesZeroOrQuotient ==
    ParsedTracked =>
        /\ features.flow_duration = 0 =>
              /\ features.flow_bytes_per_second = Zero
              /\ features.flow_packets_per_second = Zero
              /\ features.fwd_packets_per_second = Zero
              /\ features.bwd_packets_per_second = Zero
        /\ features.flow_duration > 0 =>
              /\ IsQuotient(features.flow_bytes_per_second,
                            features.flow_bytes_total, features.flow_duration)
              /\ IsQuotient(features.flow_packets_per_second,
                            features.total_fwd_packets + features.total_bwd_packets,
                            features.flow_duration)
              /\ IsQuotient(features.fwd_packets_per_second,
                            features.total_fwd_packets, features.flow_duration)
              /\ IsQuotient(features.bwd_packets_per_second,
                            features.total_bwd_packets, features.flow_duration)

\* the second packet of a flow, a reply, one minute or more after the first
C16_Witness ==
    /\ ParsedTracked
    /\ features.flow_duration >= Seconds(60)
    /\ features.total_fwd_packets = 1 /\ features.total_bwd_packets = 1
    /\ features.flow_bytes_per_second.num > 0

\* C17: a packet whose IP protocol is neither 6 nor 17 is emitted with
\* src_port = dst_port = 0 and with its IP-level fields (addresses,
\* protocol, ttl, tos, header length) taken from the IP header, and the flow
\* it updates is keyed with both ports 0.
C17_OtherProtocolPortsZero ==
    (ParsedTracked /\ last_frame[24] \notin {6, 17}) =>
        /\ features.src_port = 0 /\ features.dst_port = 0
        /\ features.src_ip = inet_ntoa(SubSeq(last_frame, 27, 30))
        /\ features.dst_ip = inet_ntoa(SubSeq(last_frame, 31, 34))
        /\ features.protocol = last_frame[24]
        /\ features.ttl = last_frame[23]
        /\ features.tos = last_frame[16]
        /\ features.header_length = (last_frame[15] % 16) * 4
        /\ \E k \in DOMAIN flow_states :
              /\ {k[1], k[3]} = {features.src_ip, features.dst_ip}
              /\ k[2] = 0 /\ k[4] = 0
              /\ k[5] = last_frame[24]
              /\ flow_states[k].last_time = last_ts
              /\ flow_states[k].total_packets =
                    features.total_fwd_packets + features.total_bwd_packets
        /\ \A k \in DOMAIN flow_states :
              k[5] \notin {6, 17} => (k[2] = 0 /\ k[4] = 0)

\* the second GRE packet of a flow, after an ICMP packet was seen too
C17_Witness ==
    /\ ParsedTracked
    /\ features.protocol = 47
    /\ features.total_fwd_packets + features.total_bwd_packets = 2
    /\ \E k \in DOMAIN flow_states : k[5] = 1

\* C18: two runs fed the same sequence of (packet bytes, timestamp), each
\* starting from its own empty flow table, emit identical feature vectors
\* packet by packet, whatever the wall-clock time at which each run executes.
C18_ReplayDeterministic ==
    replay # <<>> => replay[1].out = replay[2].out

----------------------------------------------------------------------------
(* Properties of the order and of the delivery of packets in the loop *)

\* packets its flow had seen when a record was emitted
PacketsSeen(f) == f.total_fwd_packets + f.total_bwd_packets

\* the record belongs to a flow: its frame reached the flow-tracking code
InFlow(f) == f.src_ip # <<>>

\* C19: buffers are handled in the order they were received (handles are
\* numbered in arrival order), the step that parses a buffer and updates
\* its flow also hands the record to the emitter before any later buffer
\* is parsed, and the records emitted for one flow appear in arrival
\* order: each has seen more packets of the flow than the one before.
C19_ArrivalOrder ==
    /\ [](\A i \in 1..Len(log) : log[i].mbuf = i)
    /\ [](\A i, j \in 1..Len(sent) :
            (i < j /\ InFlow(sent[i]) /\ FlowOf(sent[i]) = FlowOf(sent[j]))
                => PacketsSeen(sent[i]) < PacketsSeen(sent[j]))
    /\ [][(pc = "for" /\ flow_states' # flow_states) =>
            /\ Len(log') = Len(log) + 1
            /\ \/ sent' = Append(sent, features')
               \/ sent' = sent /\ log'[Len(log')].outcome = "send_failed"]_vars

\* three buffers of one flow were handled over two bursts or more; the
\* record of the second was refused by the producer, those of the first
\* and the third were emitted in that order
C19_Witness ==
    /\ Len(log) = 3
    /\ log[2].outcome = "send_failed"
    /\ Len(sent) = 2
    /\ PacketsSeen(sent[1]) = 1 /\ PacketsSeen(sent[2]) = 3
    /\ log[3].burst > log[1].burst

\* the emitter was invoked for the buffer of a log entry
Attempted(entry) == entry.outcome \in {"ok", "send_failed"}

\* C20: for every buffer a burst receive returned, send_message has been
\* invoked for its packet by the time the buffer is released, a buffer whose
\* data slice is empty included.
C20_AttemptPerBuffer ==
    \A h \in Handles : freed[h] >= 1 =>
        \E i \in 1..Len(log) : log[i].mbuf = h /\ Attempted(log[i])

\* packets recorded for key k in a flow table
PacketsOf(table, k) == IF k \in DOMAIN table THEN table[k].total_packets ELSE 0

\* C21: when the producer refuses a record (send_message returns False, its
\* own handler having caught what produce() raised), the flow state already
\* updated by that packet is retained, the record is not queued, the loop
\* moves on to the next buffer, and no later step takes the update back.
C21_EmitFailureKeepsUpdate ==
    /\ [][(pc = "for" /\ Len(log') = Len(log) + 1
               /\ log'[Len(log')].outcome = "send_failed") =>
            /\ sent' = sent
            /\ PacketsOf(flow_states', FlowOf(features'))
                  = PacketsOf(flow_states, FlowOf(features')) + 1
            /\ PacketsSeen(features') = PacketsOf(flow_states', FlowOf(features'))
            /\ \A k \in DOMAIN flow_states :
                  k # FlowOf(features') =>
                      k \in DOMAIN flow_states' /\ flow_states'[k] = flow_states[k]
            /\ idx' = idx + 1
            /\ pc' = (IF idx < Len(mbufs) THEN "for" ELSE "loop")
            /\ running' = running /\ loop_error' = loop_error]_vars
    /\ [][\A k \in DOMAIN flow_states :
            PacketsOf(flow_states', k) >= PacketsOf(flow_states, k)]_vars

\* the record of a flow's first packet was refused, and the record emitted
\* for its second packet counts both
C21_Witness ==
    /\ Len(log) = 2
    /\ log[1].outcome = "send_failed" /\ log[2].outcome = "ok"
    /\ Len(sent) = 1
    /\ PacketsSeen(sent[1]) = 2

----------------------------------------------------------------------------
(* Properties of the flow table's entries and of the sweeper *)

\* the entries a sweep at the current wall-clock time collects
Expired == FlowsToRemove(flow_states, clock - Seconds(FLOW_TIMEOUT))

\* the step is a parse_packet call that tracked a packet of flow k
TracksPacketOf(k) ==
    last_op' = "parse" /\ Tracked(last_frame') /\ k = FlowOf(features')

\* C22: an entry of the flow table is created only by the first packet of a
\* key that is not in the table, and is removed only by the sweeper: every
\* other entry stays, unchanged or with the one packet just parsed added to
\* it, and is never replaced by a fresh FlowState.
C22_EntriesOnlySweptOrCreated ==
    [][/\ \A k \in DOMAIN flow_states :
            \/ /\ k \in DOMAIN flow_states'
               /\ IF TracksPacketOf(k)
                  THEN /\ flow_states'[k].total_packets
                            = flow_states[k].total_packets + 1
                       /\ flow_states'[k].start_time = flow_states[k].start_time
                  ELSE flow_states'[k] = flow_states[k]
            \/ /\ sweep_ran' /\ k \in Expired
               /\ k \in DOMAIN flow_states' =>
                    (TracksPacketOf(k) /\ flow_states'[k].total_packets = 1)
       /\ \A k \in (DOMAIN flow_states') \ (DOMAIN flow_states) :
            TracksPacketOf(k) /\ flow_states'[k].total_packets = 1]_vars

\* a sweep ran inside a parse_packet call and kept the packet's flow, which
\* had started at a non-zero time, and the call added the second packet to it
C22_Witness ==
    /\ ParsedTracked /\ sweep_ran
    /\ flow_states[FlowOf(features)].total_packets = 2
    /\ flow_states[FlowOf(features)].start_time > 0

\* C23: the sweep body runs at most once per 60 s.  A step that rewrites
\* last_cleanup or evicts an entry happens more than 60 s of clock time
\* after the previous sweep and stamps last_cleanup with the current time; a
\* call made within 60 s of the last sweep evicts nothing and leaves
\* last_cleanup alone; last_cleanup never decreases.
C23_SweepAtMostOncePerInterval ==
    [][/\ last_cleanup' >= last_cleanup
       /\ (\/ last_cleanup' # last_cleanup
           \/ sweep_ran'
           \/ (DOMAIN flow_states) \ (DOMAIN flow_states') # {}) =>
              /\ clock - last_cleanup > Seconds(CLEANUP_INTERVAL)
              /\ last_cleanup' = clock
       /\ (last_op' \in {"parse", "sweep"}
              /\ clock - last_cleanup <= Seconds(CLEANUP_INTERVAL)) =>
              /\ last_cleanup' = last_cleanup
              /\ ~sweep_ran'
              /\ DOMAIN flow_states \subseteq DOMAIN flow_states'
              /\ last_op' = "sweep" => flow_states' = flow_states]_vars

\* a sweep has run, and a second call right after it did nothing
C23_Witness ==
    /\ last_op = "sweep" /\ ~sweep_ran
    /\ last_cleanup = clock
    /\ clock > Seconds(StartClock)
    /\ ops = 3

\* C24: the sweep is idempotent.  Invoked twice in a row at the same time
\* it leaves the flow table and last_cleanup as one invocation does.
C24_SweepIdempotent ==
    \A once \in {cleanup_old_flows(flow_states, last_cleanup, clock)} :
        \A twice \in {cleanup_old_flows(once.flow_states, once.last_cleanup, clock)} :
            /\ twice.flow_states = once.flow_states
            /\ twice.last_cleanup = once.last_cleanup

\* a sweep has just evicted the only flow of the table
C24_Witness ==
    /\ last_op = "sweep" /\ sweep_ran
    /\ features.src_ip # <<>>
    /\ flow_states = EmptyTable

----------------------------------------------------------------------------
(* Properties of the canonical endpoint order of FlowKey *)

\* C25: is_forward is true if and only if the packet's (src_ip, src_port)
\* is the key's first endpoint (ip1, port1), for every pair of endpoints,
\* identical endpoints included.
C25_ForwardIffSourceFirst ==
    KeysBuilt =>
        /\ key_ab[1].is_forward <=>
              (inet_ntoa(k_src.ip) = key_ab[1].ip1 /\ k_src.port = key_ab[1].port1)
        /\ key_ba[1].is_forward <=>
              (inet_ntoa(k_dst.ip) = key_ba[1].ip1 /\ k_dst.port = key_ba[1].port1)

\* a < b for two addresses given as 4 bytes
RECURSIVE BytesLess(_, _)
BytesLess(a, b) ==
    /\ a # <<>>
    /\ \/ a[1] < b[1]
       \/ a[1] = b[1] /\ BytesLess(Tail(a), Tail(b))

\* (ip, port) of e is less than or equal to that of f, the address compared
\* as 4 bytes
EndpointLeq(e, f) ==
    \/ BytesLess(e.ip, f.ip)
    \/ e.ip = f.ip /\ e.port <= f.port

\* the key made of endpoints e and f in that order
KeyHas(k, e, f) ==
    /\ k.ip1 = inet_ntoa(e.ip) /\ k.port1 = e.port
    /\ k.ip2 = inet_ntoa(f.ip) /\ k.port2 = f.port

\* C26: the key's first endpoint is the smaller of (src_ip, src_port) and
\* (dst_ip, dst_port) in the lexicographic order of (4-byte address, port),
\* so that 9.0.0.1 sorts before 10.0.0.1.
C26_FirstEndpointNumericallySmaller ==
    KeysBuilt =>
        IF EndpointLeq(k_src, k_dst)
        THEN KeyHas(key_ab[1], k_src, k_dst) /\ KeyHas(key_ba[1], k_src, k_dst)
        ELSE KeyHas(key_ab[1], k_dst, k_src) /\ KeyHas(key_ba[1], k_dst, k_src)

----------------------------------------------------------------------------
(* Properties of the activity and TCP bookkeeping of FlowState *)

\* the timestamps 1.5 s and 3.0 s in ticks
HalfPast == (3 * TicksPerSecond) \div 2
ThreeSeconds == 3 * TicksPerSecond

\* C27: on every update after the first of a flow the gap
\* ts - last_activity_time is appended to idle_periods if and only if it
\* exceeds 1.0 s, the first update appends nothing, and every update sets
\* last_activity_time to ts; three packets at ts = 0, 1.5 and 3.0 leave
\* idle_periods with exactly the two gaps between them.
C27_IdleGapsRecorded ==
    /\ [][fs_calls' = fs_calls + 1 =>
            /\ fs'.last_activity_time = fs'.last_time
            /\ fs.total_packets = 0 => fs'.idle_periods = <<>>
            /\ fs.total_packets >= 1 =>
                  fs'.idle_periods =
                    (IF fs'.last_time - fs.last_activity_time > TicksPerSecond
                     THEN Append(fs.idle_periods,
                                 fs'.last_time - fs.last_activity_time)
                     ELSE fs.idle_periods)]_vars
    /\ []((/\ fs.total_packets = 3
           /\ fs.start_time = 0
           /\ fs.all_inter_arrival_times = <<HalfPast, ThreeSeconds - HalfPast>>)
            => fs.idle_periods = <<HalfPast, ThreeSeconds - HalfPast>>)

\* three packets at ts = 0, 1.5 and 3.0 have been recorded
C27_Witness ==
    /\ fs.total_packets = 3
    /\ fs.start_time = 0
    /\ fs.all_inter_arrival_times = <<HalfPast, ThreeSeconds - HalfPast>>
    /\ Len(fs.idle_periods) = 2

\* C28: active_periods of every FlowState stays empty, and every record
\* carries active_mean = 0 and active_std = 0.
C28_ActivePeriodsEmpty ==
    /\ \A k \in DOMAIN flow_states : flow_states[k].active_periods = <<>>
    /\ features.active_mean = Zero
    /\ features.active_std = Zero

\* the record of a flow's second packet, which came after an idle gap
C28_Witness ==
    /\ ParsedTracked
    /\ PacketsSeen(features) = 2
    /\ features.idle_mean # Zero

\* C29: the tcp_flags_count computed for a record is the sum of the values
\* of the flow's per-flag-byte counter map, and equals the number of update
\* calls of the flow so far whose tcp_flags byte was greater than 0.
C29_FlagsCountIsSum ==
    /\ calculate_flow_statistics(fs, fs.last_time).tcp_flags_count
          = SumSeq([i \in 1..Len(fs.tcp_flags_count) |-> fs.tcp_flags_count[i][2]])
    /\ calculate_flow_statistics(fs, fs.last_time).tcp_flags_count = fs_flagged

\* three packets, two of them with the same non-zero flag byte
C29_Witness ==
    /\ fs.total_packets = 3
    /\ fs_flagged = 2
    /\ Len(fs.tcp_flags_count) = 1

----------------------------------------------------------------------------
(* Properties of initialize() *)

\* C30: initialize() is idempotent.  Once an initialization has succeeded
\* no further driver call of initialize() is made (no second EAL init,
\* pool creation, port configure, queue setup or port start).
C30_InitializeIdempotent ==
    [][mempool => init_calls' = init_calls]_vars

\* C31: a failure of any initialization step is fatal.  When the EAL init,
\* the port count, the pool creation, the port configure, a queue setup or
\* the port start fails, initialize() reports failure, no later
\* initialization call is made, the capture never runs and no burst is
\* received, and the process exits with code 1.
C31_InitFailureFatal ==
    init_failed_at # 0 =>
        /\ init_calls = SubSeq(InitCalls, 1, init_failed_at)
        /\ ~run_result
        /\ ~running
        /\ rx_bursts = 0 /\ mbufs = <<>> /\ log = <<>>
        /\ pc \in {"cleanup", "exited"}
        /\ pc = "exited" => exit_code = 1

\* the RX queue setup failed after the pool had been created, and the
\* process has exited
C31_Witness ==
    /\ init_failed_at # 0
    /\ InitCalls[init_failed_at] = "rte_eth_rx_queue_setup"
    /\ mempool
    /\ pc = "exited"

\* C32: the process exit code is 0 on a clean stop and 1 on a fatal
\* initialization error or a runtime error, the latter including a capture
\* loop ended by an error raised outside the per-packet handling (the
\* burst receive raising).
C32_ExitCodeReflectsErrors ==
    pc = "exited" =>
        exit_code = (IF init_failed_at # 0 \/ loop_error THEN 1 ELSE 0)

----------------------------------------------------------------------------
(* Properties of the partition key *)

\* C33: the partition key of a record is "{src_ip}:{src_port}" when the
\* record has a source address, and "unknown:0" when it has none, as for
\* an unparseable frame (empty src_ip, port 0).
C33_PartitionKey ==
    last_op = "parse" =>
        PartitionKey(features) =
            (IF features.src_ip # <<>>
             THEN features.src_ip \o <<58>> \o Str(features.src_port)
             ELSE Unknown \o <<58, 48>>)

----------------------------------------------------------------------------
(* Properties of the flow lookup *)

\* the two endpoints of a table key, whatever their order
EndpointsOf(k) == {<<k[1], k[2]>>, <<k[3], k[4]>>}

\* the key is in the table when parse_packet looks it up, i.e. after the
\* sweep at the start of the call
PresentAtLookup(k) ==
    k \in DOMAIN flow_states /\ ~(sweep_ran' /\ k \in Expired)

\* the is_forward flag of the packet a record was built from
ForwardOf(f) ==
    FlowKey(f.src_ip, f.dst_ip, f.src_port, f.dst_port, f.protocol).is_forward

\* FlowState.update applied to st with the packet of the record f
UpdatedWith(st, f, timestamp) ==
    FlowUpdate(st, f.packet_length, timestamp, ForwardOf(f), f.tcp_flags, f.tcp_window)

\* C34: the lookup is insert-on-miss and never fails.  The table never
\* holds two entries for the same pair of endpoints and protocol, whatever
\* the direction of the packets; every tracked packet leaves an entry under
\* its key; when the key is present at the lookup the existing entry is
\* updated, and when it is absent the entry is the update of a fresh
\* FlowState, whose counters are zero and whose lists are empty, so the
\* entry holds exactly this one packet.
C34_InsertOnMiss ==
    /\ [](\A k1, k2 \in DOMAIN flow_states :
            (EndpointsOf(k1) = EndpointsOf(k2) /\ k1[5] = k2[5]) => k1 = k2)
    /\ [][(ParseStep /\ Tracked(last_frame')) =>
            \E k \in {FlowOf(features')} :
                /\ k \in DOMAIN flow_states'
                /\ IF PresentAtLookup(k)
                   THEN flow_states'[k] = UpdatedWith(flow_states[k], features', last_ts')
                   ELSE /\ flow_states'[k] = UpdatedWith(NewFlowState, features', last_ts')
                        /\ flow_states'[k].total_packets = 1
                        /\ flow_states'[k].fwd_packets + flow_states'[k].bwd_packets = 1
                        /\ Len(flow_states'[k].all_packet_lengths) = 1
                        /\ flow_states'[k].all_inter_arrival_times = <<>>
                        /\ flow_states'[k].fwd_inter_arrival_times = <<>>
                        /\ flow_states'[k].bwd_inter_arrival_times = <<>>]_vars

\* both directions of one connection were parsed and share a single entry,
\* which counts one forward and one backward packet
C34_Witness ==
    /\ ParsedTracked /\ last_frame = FrameTcpBA
    /\ Cardinality(DOMAIN flow_states) = 1
    /\ flow_states[FlowOf(features)].fwd_packets = 1
    /\ flow_states[FlowOf(features)].bwd_packets = 1

----------------------------------------------------------------------------
(* Properties of the sweep inside parse_packet *)

\* the step is a parse_packet call, made when a sweep is due, of a tracked
\* packet whose flow k has been idle for more than the timeout
ParsesIdleFlow(k) ==
    /\ ParseStep /\ Tracked(last_frame') /\ k = FlowOf(features')
    /\ SweepDue(clock, last_cleanup)
    /\ k \in DOMAIN flow_states
    /\ flow_states[k].last_time < clock - Seconds(FLOW_TIMEOUT)

\* C35: within parse_packet the sweep runs before the flow lookup.  When a
\* sweep is due and the packet's flow has last_time older than now - 300 s,
\* the old entry is evicted first and the packet starts a fresh FlowState:
\* the emitted record shows exactly one packet in the flow and
\* flow_duration 0.
C35_SweepBeforeLookup ==
    [][\A k \in DOMAIN flow_states' :
          ParsesIdleFlow(k) =>
              /\ flow_states'[k].total_packets = 1
              /\ PacketsSeen(features') = 1
              /\ features'.flow_duration = 0]_vars

----------------------------------------------------------------------------
(* Properties of packets with a truncated transport header *)

\* the offset of the transport header: 14 plus the IHL of the IP header
TransportOffset(frame) == 14 + (frame[15] % 16) * 4

\* a tracked TCP packet with fewer than 20 bytes at the transport offset, or
\* a tracked UDP packet with fewer than 8
Truncated(frame) ==
    /\ Tracked(frame)
    /\ \/ frame[24] = 6 /\ Len(frame) - TransportOffset(frame) < 20
       \/ frame[24] = 17 /\ Len(frame) - TransportOffset(frame) < 8

\* C36: an IPv4 packet of protocol 6 with fewer than 20 bytes at the
\* transport offset, or of protocol 17 with fewer than 8, still creates or
\* updates a flow.  Its record has ports, tcp_flags and tcp_window 0 and
\* the label BENIGN, and the packet is counted in the flow keyed with both
\* ports 0: that entry gains exactly this packet and no other entry, the
\* one of the full-header packets of the connection included, changes.
C36_TruncatedTransport ==
    [][(ParseStep /\ Truncated(last_frame')) =>
          /\ features'.src_port = 0 /\ features'.dst_port = 0
          /\ features'.tcp_flags = 0 /\ features'.tcp_window = 0
          /\ features'.label = "BENIGN"
          /\ \E k \in {FlowOf(features')} :
                /\ k[2] = 0 /\ k[4] = 0
                /\ k \in DOMAIN flow_states'
                /\ flow_states'[k].total_packets =
                      (IF PresentAtLookup(k) THEN flow_states[k].total_packets ELSE 0) + 1
                /\ PacketsSeen(features') = flow_states'[k].total_packets
                /\ \A x \in (DOMAIN flow_states') \ {k} :
                      x \in DOMAIN flow_states /\ flow_states'[x] = flow_states[x]]_vars

\* a full TCP packet and then a truncated one of the same connection were
\* parsed: the table holds the flow of the first under its ports and the
\* flow of the second under ports 0, with one packet each
C36_Witness ==
    /\ last_op = "parse" /\ last_frame = FrameTcpCut
    /\ Cardinality(DOMAIN flow_states) = 2
    /\ \A k \in DOMAIN flow_states : flow_states[k].total_packets = 1
    /\ \E k \in DOMAIN flow_states : k[2] = 5000 /\ k[4] = 80
    /\ FlowOf(features)[2] = 0 /\ FlowOf(features)[4] = 0

----------------------------------------------------------------------------
(* Properties of the shutdown *)

\* C37: on every exit path of run(), i.e. after a failed initialization,
\* after the capture loop returned normally and after it ended on an
\* exception, cleanup runs exactly once and only after the capture loop has
\* ended: when the process exits the capture's running flag is false and
\* the producer has been flushed exactly once, the flush happens in the
\* step that leaves run(), outside the loop, and never before.
C37_CleanupOnce ==
    /\ [](flushes = (IF pc = "exited" THEN 1 ELSE 0))
    /\ [](pc = "exited" => ~running)
    /\ [][flushes' # flushes =>
            /\ ~InLoop /\ pc = "cleanup"
            /\ ~running' /\ pc' = "exited"]_vars

\* the process has exited after a failed initialization: no burst was ever
\* received, and the producer was flushed once
C37_Witness ==
    /\ pc = "exited" /\ init_failed_at # 0
    /\ flushes = 1 /\ ~running /\ rx_bursts = 0

====
